---- MODULE Spec2Model ----
(***************************************************************************)
(* A model of the bank statement processor: the fingerprint of a           *)
(* transaction, the CSV ledger store (load, append, validate), the         *)
(* deduplicating conversion of a statement into records, and the run of    *)
(* main() over the PDF files of the data directory.                        *)
(*                                                                         *)
(* Text (a Python str, a CSV field) is a sequence of one-character         *)
(* strings, so that lower(), strip(), sorted() and the composition of the  *)
(* hash string are computed character by character.  A float is a sign    *)
(* bit and a magnitude in tenths.  An Optional value is <<>> for None and  *)
(* <<v>> for the value v.  SHA-256 is taken as collision-free: the digest  *)
(* of s is "#" followed by s.                                              *)
(***************************************************************************)
EXTENDS Integers, Sequences, FiniteSets, TLC

VARIABLES
    store,            \* the file at config.output_path
    backup,           \* the file at config.output_path + ".backup"
    dir,              \* the data directory: file name -> "none", "invalid" or the id of its statement
    pc,               \* where main() is
    logger,           \* whether main()'s local variable logger is bound
    existing_hashes,  \* main(): the run-scoped set of known hashes
    pdf_files,        \* main(): the sorted list of valid PDF files
    idx,              \* main(): the position of the per-file loop (enumerate, from 1)
    all_new_records,  \* main(): the accumulated new records
    successful_files, \* main(): the tally of successful files
    failed_files,     \* main(): the failure entries
    exit_code,        \* the exit status of the process (None while it runs)
    log,              \* what main's except clause logged: "none", "interrupted", the type of
                      \* the application error, "fatal_error", or "traceback" (it logged nothing)
    summary_data,     \* the summary of the report stage (None before it)
    runs,             \* the number of runs started
    hist,             \* history of the current run (what happened, for the properties)
    ingested,         \* history: the files earlier runs processed successfully and committed
    ing,              \* the call of convert_statement_to_records under IngestSpec
    api               \* the calls of the functions of data_processor.py under StoreSpec
                      \* and HashSpec

vars == <<store, backup, dir, pc, logger, existing_hashes, pdf_files, idx,
          all_new_records, successful_files, failed_files, exit_code, log,
          summary_data, runs, hist, ingested, ing, api>>

-----------------------------------------------------------------------------
(* Bounds of the model *)

\* The number of runs of main() in a behaviour.
MaxRuns == 2

\* The longest statement drawn as an input of convert_statement_to_records.
MaxTxns == 3

\* The most calls of the store's functions in a behaviour of StoreSpec.
MaxCalls == 3

-----------------------------------------------------------------------------
(* Python values *)

\* Python's None, and an Optional that holds v.
None == <<>>
Some(v) == <<v>>

\* The empty CSV field, which pandas reads back as NaN.
NaN == <<>>

RECURSIVE NatStr(_)
\* str() of a non-negative int, digit by digit.
NatStr(n) ==
    LET d == <<"0", "1", "2", "3", "4", "5", "6", "7", "8", "9">>
    IN  IF n < 10 THEN <<d[n + 1]>> ELSE NatStr(n \div 10) \o <<d[(n % 10) + 1]>>

\* A float: its sign bit and its magnitude in tenths.
Float(tenths) == [neg |-> FALSE, tenths |-> tenths]

\* -0.0, as json.loads reads "-0.0".
NegZero == [neg |-> TRUE, tenths |-> 0]

\* float.__eq__: 0.0 == -0.0.
FloatEq(a, b) == a = b \/ (a.tenths = 0 /\ b.tenths = 0)

\* str() of a float: "12.5", "0.0", "-3.0", "-0.0".
FloatStr(v) ==
    (IF v.neg THEN <<"-">> ELSE <<>>)
        \o NatStr(v.tenths \div 10) \o <<".">> \o NatStr(v.tenths % 10)

\* str() of an Optional[float] inside an f-string: None prints as "None".
OptFloatStr(v) == IF v = None THEN <<"N", "o", "n", "e">> ELSE FloatStr(v[1])

\* str.lower() on one character of the model's alphabet.
LowerChar(c) ==
    CASE c = "A" -> "a"
      [] c = "B" -> "b"
      [] c = "P" -> "p"
      [] OTHER -> c

\* str.lower()
Lower(s) == [i \in 1..Len(s) |-> LowerChar(s[i])]

\* str.isspace() on one character.
IsSpace(c) == c \in {" ", "\t", "\n"}

RECURSIVE LStrip(_)
LStrip(s) == IF s # <<>> /\ IsSpace(Head(s)) THEN LStrip(Tail(s)) ELSE s

RECURSIVE RStrip(_)
RStrip(s) == IF s # <<>> /\ IsSpace(s[Len(s)]) THEN RStrip(SubSeq(s, 1, Len(s) - 1)) ELSE s

\* str.strip()
Strip(s) == RStrip(LStrip(s))

\* hashlib.sha256(...).hexdigest(), collision-free.
Sha256(s) == <<"#">> \o s

-----------------------------------------------------------------------------
(* src/src/data_processor.py: create_transaction_hash *)

NormalizedDescription(transaction) == Strip(Lower(transaction.description))

\* The balance formatted as debit and credit are: None prints as "None".
BalanceStrNone(transaction) == OptFloatStr(transaction.balance)

BalanceStr(transaction) ==
    IF transaction.balance # None THEN FloatStr(transaction.balance[1]) ELSE <<"0", ".", "0">>

\* The string that is hashed.
HashString(account_number, transaction) ==
    LET base == account_number \o <<"-">> \o transaction.date \o <<"-">>
                \o NormalizedDescription(transaction) \o <<"-">>
                \o OptFloatStr(transaction.debit) \o <<"-">>
                \o OptFloatStr(transaction.credit) \o <<"-">>
                \o BalanceStr(transaction)
    IN  IF transaction.reference # None /\ transaction.reference[1] # <<>>
        THEN base \o <<"-">> \o transaction.reference[1]
        ELSE base

create_transaction_hash(account_number, transaction) ==
    Sha256(HashString(account_number, transaction))

-----------------------------------------------------------------------------
(* src/src/schemas.py: the transactions and statements of the model *)

Tx(date, description, debit, credit, balance, reference) ==
    [date |-> date, description |-> description, debit |-> debit,
     credit |-> credit, balance |-> balance, reference |-> reference]

\* A card payment, and the same payment as another extraction spells it.
TxA  == Tx(<<"1">>, <<"P", "a">>, Some(Float(125)), None, Some(Float(1000)), None)
TxA2 == Tx(<<"1">>, <<" ", "p", "A", " ">>, Some(Float(125)), None, Some(Float(1000)), None)
\* A credit with a reference.
TxB  == Tx(<<"2">>, <<"b">>, None, Some(Float(50)), Some(Float(1050)), Some(<<"r">>))
\* A payment that empties the account, with and without the balance recorded.
TxZ0 == Tx(<<"3">>, <<"a">>, Some(Float(1050)), None, Some(Float(0)), None)
TxZn == Tx(<<"3">>, <<"a">>, Some(Float(1050)), None, None, None)

Transactions == {TxA, TxA2, TxB, TxZ0, TxZn}

BankStatement(account_number, transactions) ==
    [account_holder_name |-> <<"h">>, bank_name |-> <<"k">>,
     account_number |-> account_number, sort_code |-> <<"0">>,
     statement_period |-> <<"J">>, transactions |-> transactions]

\* What the AI collaborator extracts from the file with this content.
Statement(id) ==
    CASE id = "s1" -> BankStatement(<<"7">>, <<TxA, TxB, TxA>>)
      [] id = "s2" -> BankStatement(<<"7">>, <<TxA2, TxZ0>>)
      [] id = "s3" -> BankStatement(<<"7">>, <<TxZn, TxB>>)

StatementIds == {"s1", "s2", "s3"}

-----------------------------------------------------------------------------
(* src/src/data_processor.py: the ledger store *)

\* The keys of the record dictionary, in insertion order: the columns of
\* the DataFrame that append_to_csv writes.
RecordColumns ==
    <<"transaction_hash", "source_file", "account_holder", "bank_name",
      "account_number", "sort_code", "statement_period", "transaction_date",
      "description", "debit", "credit", "balance", "reference">>

\* validate_csv_structure's expected_columns.
expected_columns ==
    {"transaction_hash", "source_file", "account_holder", "bank_name",
     "account_number", "sort_code", "statement_period", "transaction_date",
     "description", "debit", "credit", "balance", "reference"}

\* A file is absent, empty (zero bytes), garbage (bytes pandas finds no
\* ledger in) or a CSV: a header line and the rows under it.
Absent  == [kind |-> "absent",  header |-> <<>>, rows |-> <<>>]
Empty   == [kind |-> "empty",   header |-> <<>>, rows |-> <<>>]
Garbage == [kind |-> "garbage", header |-> <<>>, rows |-> <<>>]
Csv(header, rows) == [kind |-> "csv", header |-> header, rows |-> rows]

\* os.path.exists
Exists(file) == file.kind # "absent"

\* to_csv's field for the value of a column: None is written as the empty
\* field, a float as its shortest decimal form, text as it is.
CsvField(column, v) ==
    CASE column \in {"debit", "credit", "balance"} ->
             IF v = None THEN NaN ELSE FloatStr(v[1])
      [] column = "reference" -> IF v = None THEN NaN ELSE v[1]
      [] OTHER -> v

\* The values of a record in the reverse of the column order.
RowOfReversed(record) ==
    [i \in 1..Len(RecordColumns) |->
        CsvField(RecordColumns[Len(RecordColumns) + 1 - i],
                 record[RecordColumns[Len(RecordColumns) + 1 - i]])]

\* The line to_csv writes for one record: its values in column order.
RowOf(record) ==
    [i \in 1..Len(RecordColumns) |-> CsvField(RecordColumns[i], record[RecordColumns[i]])]

RowsOf(records) == [i \in 1..Len(records) |-> RowOf(records[i])]

\* The position of a column in a header (0: not there).
ColumnIndex(header, column) ==
    IF \E i \in 1..Len(header) : header[i] = column
    THEN CHOOSE i \in 1..Len(header) :
             header[i] = column /\ \A j \in 1..(i - 1) : header[j] # column
    ELSE 0

\* read_csv: the value of a row under a column of the header; a row
\* shorter than the header is filled with NaN.
Cell(header, row, column) ==
    LET i == ColumnIndex(header, column)
    IN  IF i >= 1 /\ i <= Len(row) THEN row[i] ELSE NaN

\* astype(str) of one value.
AsStr(v) == IF v = NaN THEN <<"n", "a", "n">> ELSE v

\* The exception pd.read_csv raises on a file ("": it returns the frame);
\* io: the read meets an I/O error.
read_csv_raises(file, io) ==
    CASE file.kind = "absent" -> "FileNotFoundError"
      [] io -> "OSError"
      [] file.kind = "empty" -> "EmptyDataError"
      [] file.kind = "garbage" -> "ParserError"
      [] OTHER -> ""

\* Lines 60-63: the set of the values under transaction_hash, empty when
\* the frame has no such column.
HashColumn(file) ==
    IF ColumnIndex(file.header, "transaction_hash") = 0 THEN {}
    ELSE {AsStr(Cell(file.header, file.rows[i], "transaction_hash")) :
              i \in 1..Len(file.rows)}

\* get_existing_hashes without its second except clause.
get_existing_hashes_narrow(file, io) ==
    IF ~Exists(file) THEN [ret |-> {}, raised |-> FALSE]
    ELSE LET e == read_csv_raises(file, io)
         IN  IF e \in {"FileNotFoundError", "EmptyDataError"} THEN [ret |-> {}, raised |-> FALSE]
             ELSE IF e # "" THEN [ret |-> {}, raised |-> TRUE]
             ELSE [ret |-> HashColumn(file), raised |-> FALSE]

\* A call of get_existing_hashes: the set it returns and whether it raised.
get_existing_hashes_call(file, io) ==
    IF ~Exists(file) THEN [ret |-> {}, raised |-> FALSE]
    ELSE LET e == read_csv_raises(file, io)
         IN  IF e \in {"FileNotFoundError", "EmptyDataError"} THEN [ret |-> {}, raised |-> FALSE]
             ELSE IF e # "" THEN [ret |-> {}, raised |-> FALSE]
             ELSE [ret |-> HashColumn(file), raised |-> FALSE]

\* The set get_existing_hashes returns when the read meets no I/O error.
get_existing_hashes(file) == get_existing_hashes_call(file, FALSE).ret

\* validate_csv_structure with equality in the place of issubset.
validate_csv_structure_equal(file, io) ==
    IF ~Exists(file) THEN [ret |-> TRUE, raised |-> FALSE]
    ELSE IF read_csv_raises(file, io) # "" THEN [ret |-> FALSE, raised |-> FALSE]
    ELSE [ret |-> expected_columns = {file.header[i] : i \in 1..Len(file.header)},
          raised |-> FALSE]

\* A call of validate_csv_structure: what it returns and whether it raised.
validate_csv_structure_call(file, io) ==
    IF ~Exists(file) THEN [ret |-> TRUE, raised |-> FALSE]
    ELSE IF read_csv_raises(file, io) # "" THEN [ret |-> FALSE, raised |-> FALSE]
    ELSE [ret |-> expected_columns \subseteq {file.header[i] : i \in 1..Len(file.header)},
          raised |-> FALSE]

\* What validate_csv_structure returns when the read meets no I/O error.
validate_csv_structure(file) == validate_csv_structure_call(file, FALSE).ret

\* to_csv with mode='w': the file is written anew.
WrittenOver(file, rows, k) == Csv(RecordColumns, SubSeq(rows, 1, k))

\* The file after to_csv(mode='a', header=not file_exists) wrote the first
\* k of the rows (all of them when the write succeeds).
Written(file, rows, k) ==
    LET file_exists == Exists(file) /\ file.kind # "empty"
    IN  IF ~file_exists THEN Csv(RecordColumns, SubSeq(rows, 1, k))
        ELSE IF file.kind = "csv" THEN Csv(file.header, file.rows \o SubSeq(rows, 1, k))
        ELSE file

\* The file after an append_to_csv that returns.
Appended(records, file) ==
    IF records = <<>> THEN file ELSE Written(file, RowsOf(records), Len(records))

\* What a failed write can leave behind: nothing, a created empty file,
\* or the header and some of the rows.
FailedWrites(records, file) ==
    {file} \cup (IF Exists(file) THEN {} ELSE {Empty})
           \cup {Written(file, RowsOf(records), k) : k \in 0..(Len(records) - 1)}

\* append_to_csv without the raise of its except clause.
append_to_csv_swallowing(records, file) ==
    IF records = <<>> THEN {[file |-> file, failed |-> FALSE, raised |-> FALSE]}
    ELSE {[file |-> Appended(records, file), failed |-> FALSE, raised |-> FALSE]}
         \cup {[file |-> f, failed |-> TRUE, raised |-> FALSE] : f \in FailedWrites(records, file)}

\* append_to_csv without the return of lines 83-84.
append_to_csv_unguarded(records, file) ==
    {[file |-> Written(file, RowsOf(records), Len(records)), failed |-> FALSE, raised |-> FALSE]}
    \cup {[file |-> f, failed |-> TRUE, raised |-> TRUE] : f \in FailedWrites(records, file)}

\* Line 88: whether the call reaches os.makedirs of the parent directory.
makedirs_called(records) == records # <<>>

\* The outcomes of append_to_csv: the file it leaves, whether the write
\* failed, and whether the call raised.
append_to_csv(records, file) ==
    IF records = <<>> THEN {[file |-> file, failed |-> FALSE, raised |-> FALSE]}
    ELSE {[file |-> Appended(records, file), failed |-> FALSE, raised |-> FALSE]}
         \cup {[file |-> f, failed |-> TRUE, raised |-> TRUE] : f \in FailedWrites(records, file)}

-----------------------------------------------------------------------------
(* src/src/data_processor.py: convert_statement_to_records *)

NewRecord(statement, source_filename, transaction, tx_hash) ==
    [transaction_hash |-> tx_hash,
     source_file      |-> source_filename,
     account_holder   |-> statement.account_holder_name,
     bank_name        |-> statement.bank_name,
     account_number   |-> statement.account_number,
     sort_code        |-> statement.sort_code,
     statement_period |-> statement.statement_period,
     transaction_date |-> transaction.date,
     description      |-> transaction.description,
     debit            |-> transaction.debit,
     credit           |-> transaction.credit,
     balance          |-> transaction.balance,
     reference        |-> transaction.reference]

RECURSIVE ConvertFrom(_, _, _, _, _)
\* The loop over statement.transactions from position i on.
ConvertFrom(statement, source_filename, i, new_records, hashes) ==
    IF i > Len(statement.transactions)
    THEN [new_records |-> new_records, existing_hashes |-> hashes]
    ELSE LET transaction == statement.transactions[i]
             tx_hash == create_transaction_hash(statement.account_number, transaction)
         IN  IF tx_hash \in hashes
             THEN ConvertFrom(statement, source_filename, i + 1, new_records, hashes)
             ELSE ConvertFrom(statement, source_filename, i + 1,
                              Append(new_records,
                                     NewRecord(statement, source_filename, transaction, tx_hash)),
                              hashes \cup {tx_hash})

RECURSIVE ConvertWithoutAdd(_, _, _, _, _)
\* The loop without existing_hashes.add(tx_hash).
ConvertWithoutAdd(statement, source_filename, i, new_records, hashes) ==
    IF i > Len(statement.transactions)
    THEN [new_records |-> new_records, existing_hashes |-> hashes]
    ELSE LET transaction == statement.transactions[i]
             tx_hash == create_transaction_hash(statement.account_number, transaction)
         IN  IF tx_hash \in hashes
             THEN ConvertWithoutAdd(statement, source_filename, i + 1, new_records, hashes)
             ELSE ConvertWithoutAdd(statement, source_filename, i + 1,
                                    Append(new_records,
                                           NewRecord(statement, source_filename, transaction, tx_hash)),
                                    hashes)

convert_without_add(statement, source_filename, hashes) ==
    ConvertWithoutAdd(statement, source_filename, 1, <<>>, hashes)

RECURSIVE ConvertKeepingKnown(_, _, _, _, _)
\* The loop without the test of lines 129-130.
ConvertKeepingKnown(statement, source_filename, i, new_records, hashes) ==
    IF i > Len(statement.transactions)
    THEN [new_records |-> new_records, existing_hashes |-> hashes]
    ELSE LET transaction == statement.transactions[i]
             tx_hash == create_transaction_hash(statement.account_number, transaction)
         IN  ConvertKeepingKnown(statement, source_filename, i + 1,
                                 Append(new_records,
                                        NewRecord(statement, source_filename, transaction, tx_hash)),
                                 hashes \cup {tx_hash})

convert_keeping_known(statement, source_filename, hashes) ==
    ConvertKeepingKnown(statement, source_filename, 1, <<>>, hashes)

\* The returned list, and the caller's set as the call leaves it.
convert_statement_to_records(statement, source_filename, hashes) ==
    ConvertFrom(statement, source_filename, 1, <<>>, hashes)

-----------------------------------------------------------------------------
(* src/src/main.py: the files of the data directory *)

\* The names of the files that glob("*.pdf") can find.
FileB  == <<"B", ".", "p", "d", "f">>
FileA  == <<"a", ".", "p", "d", "f">>
FileAb == <<"a", "b", ".", "p", "d", "f">>
FileNames == {FileB, FileA, FileAb}

\* config.data_dir, and str(file_path) of a file in it.
DataDir == <<"d", "a", "t", "a">>
PathOf(name) == DataDir \o <<"/">> \o name

\* Path(pdf_path).name
NameOf(path) == SubSeq(path, Len(DataDir) + 2, Len(path))

\* ord() of the characters of paths.
Ord(c) ==
    CASE c = "." -> 46
      [] c = "/" -> 47
      [] c = "B" -> 66
      [] c = "a" -> 97
      [] c = "b" -> 98
      [] c = "d" -> 100
      [] c = "f" -> 102
      [] c = "p" -> 112
      [] c = "t" -> 116

RECURSIVE StrLess(_, _)
\* s < t on Python strings: by code point, a proper prefix first.
StrLess(s, t) ==
    IF t = <<>> THEN FALSE
    ELSE IF s = <<>> THEN TRUE
    ELSE IF Ord(Head(s)) # Ord(Head(t)) THEN Ord(Head(s)) < Ord(Head(t))
    ELSE StrLess(Tail(s), Tail(t))

RECURSIVE Insert(_, _)
Insert(x, sorted_list) ==
    IF sorted_list = <<>> THEN <<x>>
    ELSE IF StrLess(x, Head(sorted_list)) THEN <<x>> \o sorted_list
    ELSE <<Head(sorted_list)>> \o Insert(x, Tail(sorted_list))

RECURSIVE sorted(_)
\* sorted() of a list of strings.
sorted(list) == IF list = <<>> THEN <<>> ELSE Insert(Head(list), sorted(Tail(list)))

\* The orders in which glob can yield the files of a set.
Orders(S) ==
    {o \in [1..Cardinality(S) -> S] : \A i, j \in 1..Cardinality(S) : i # j => o[i] # o[j]}

RECURSIVE ValidPaths(_)
\* get_pdf_files' loop: the paths of the files validate_pdf_file accepts.
ValidPaths(globbed) ==
    IF globbed = <<>> THEN <<>>
    ELSE (IF dir[Head(globbed)] \in StatementIds THEN <<PathOf(Head(globbed))>> ELSE <<>>)
         \o ValidPaths(Tail(globbed))

\* get_pdf_files returning the list as glob yielded it.
get_pdf_files_unsorted(globbed) == ValidPaths(globbed)

\* StatementProcessor.get_pdf_files, glob yielding the files in this order.
get_pdf_files(globbed) == sorted(ValidPaths(globbed))

-----------------------------------------------------------------------------
(* src/src/main.py: StatementProcessor.process_single_pdf *)

\* The least length of the stripped text that is sent to the AI collaborator.
MinTextLength == 50

\* The lengths of the stripped text extract_text_from_pdf can return, on
\* either side of the test of line 139 (an extraction that failed returns ""
\* and goes the way of the shorter text).
TextLengths == {MinTextLength - 1, MinTextLength}

\* The exceptions extract_data_with_llm can raise.
AIErrors == {"JSONDecodeError", "ValidationError"}

\* str(e) of the exception of this type.
ErrorMessage(error_type) ==
    CASE error_type = "PDFProcessingError" -> "Insufficient text extracted from PDF"
      [] error_type = "JSONDecodeError" -> "Expecting value"
      [] error_type = "ValidationError" -> "validation error for BankStatement"

\* What the except clause of process_single_pdf returns.
ErrorResult(filename, error_type) ==
    [status |-> "error", filename |-> filename, statement |-> None,
     error |-> ErrorMessage(error_type), error_type |-> error_type]

\* process_single_pdf with the length test off by one.
process_single_pdf_off_by_one(pdf_path, text_length, ai) ==
    LET filename == NameOf(pdf_path)
    IN  IF text_length <= MinTextLength THEN ErrorResult(filename, "PDFProcessingError")
        ELSE IF ai # "ok" THEN ErrorResult(filename, ai)
        ELSE [status |-> "success", filename |-> filename,
              statement |-> Some(Statement(dir[filename])),
              error |-> "", error_type |-> ""]

\* The result of process_single_pdf on a file whose extraction yields text
\* of this length and on which the AI collaborator answers ai ("ok" or the
\* exception it raises).
process_single_pdf(pdf_path, text_length, ai) ==
    LET filename == NameOf(pdf_path)
    IN  IF text_length < MinTextLength THEN ErrorResult(filename, "PDFProcessingError")
        ELSE IF ai # "ok" THEN ErrorResult(filename, ai)
        ELSE [status |-> "success", filename |-> filename,
              statement |-> Some(Statement(dir[filename])),
              error |-> "", error_type |-> ""]

-----------------------------------------------------------------------------
(* The initial states: the ledger store and the data directory of the run *)

FileOld == <<"o", ".", "p", "d", "f">>

\* A record an earlier version of the ledger holds.
OldRecord ==
    NewRecord(Statement("s1"), FileOld, TxB,
              create_transaction_hash(Statement("s1").account_number, TxB))

\* The line of a record under a header, each value under its own column
\* (a column that is not the record's holds "x").
RowUnder(header, record) ==
    [i \in 1..Len(header) |->
        IF header[i] \in expected_columns THEN CsvField(header[i], record[header[i]])
        ELSE <<"x">>]

\* The columns with the first two in the other order.
SwappedColumns ==
    <<"source_file", "transaction_hash">> \o SubSeq(RecordColumns, 3, Len(RecordColumns))

\* The columns and one more.
ExtendedColumns == RecordColumns \o <<"note">>

\* The columns but the last.
ShortColumns == SubSeq(RecordColumns, 1, Len(RecordColumns) - 1)

InitialStores ==
    {Absent, Empty, Garbage, Csv(RecordColumns, <<>>)}
    \cup {Csv(h, <<RowUnder(h, OldRecord)>>) :
              h \in {RecordColumns, SwappedColumns, ExtendedColumns, ShortColumns}}

\* What a name of the directory can be: no file, a file validate_pdf_file
\* rejects, or a readable statement.
Contents(name) ==
    CASE name = FileB  -> {"none", "invalid", "s2"}
      [] name = FileA  -> {"none", "invalid", "s1"}
      [] name = FileAb -> {"none", "s1", "s3"}

Directories == {d \in [FileNames -> {"none", "invalid"} \cup StatementIds] :
                    \A n \in FileNames : d[n] \in Contents(n)}

NewHist(file) ==
    [store0 |-> file,          \* the store when the run started
     store1 |-> file,          \* the store as preflight left it
     fatal |-> "none",         \* the fatal event of the run: "config", "probe", "storage", "interrupt"
     probe |-> "none",         \* what test_api_connection returned: "ok", "failed"
     validated |-> FALSE,      \* validate_csv_structure was called
     renamed |-> FALSE,        \* the store was renamed aside
     loaded |-> FALSE,         \* get_existing_hashes was called
     hashes0 |-> {},           \* the set get_existing_hashes returned
     discovered |-> FALSE,     \* get_pdf_files was called
     attempts |-> <<>>,        \* the files given to process_single_pdf, with what happened
     append_calls |-> 0,       \* the calls of append_to_csv
     append_idx |-> 0,         \* the loop position when append_to_csv was called
     committed |-> FALSE]      \* the commit step completed

\* A call of convert_statement_to_records: its arguments and, once it has
\* returned, the list it returned and the caller's set as it left it.
Call(statement, source_filename, hashes) ==
    [statement |-> statement, source_filename |-> source_filename, known |-> hashes,
     returned |-> FALSE, new_records |-> <<>>, existing_hashes |-> hashes]

NoCall == Call(BankStatement(<<"7">>, <<>>), FileA, {})

\* No function of data_processor.py was called on its own.
NoApi == [op |-> "none"]

Init ==
    /\ store \in InitialStores
    /\ backup = Absent
    /\ dir \in Directories
    /\ pc = "idle"
    /\ logger = FALSE
    /\ existing_hashes = {}
    /\ pdf_files = <<>>
    /\ idx = 0
    /\ all_new_records = <<>>
    /\ successful_files = 0
    /\ failed_files = <<>>
    /\ exit_code = None
    /\ log = "none"
    /\ summary_data = None
    /\ runs = 0
    /\ hist = NewHist(store)
    /\ ingested = {}
    /\ ing = NoCall
    /\ api = NoApi

-----------------------------------------------------------------------------
(* src/src/main.py: main *)

env == <<store, backup, dir>>
locals == <<existing_hashes, pdf_files, idx, all_new_records, successful_files, failed_files>>

\* The files of the run that process_single_pdf returned successfully.
OkFiles(h) == {h.attempts[i].filename : i \in {j \in 1..Len(h.attempts) : h.attempts[j].ai = "ok"}}

\* The process is started.
StartRun ==
    /\ pc \in {"idle", "done"}
    /\ runs < MaxRuns
    /\ runs' = runs + 1
    /\ pc' = "init"
    /\ logger' = FALSE
    /\ existing_hashes' = {}
    /\ pdf_files' = <<>>
    /\ idx' = 0
    /\ all_new_records' = <<>>
    /\ successful_files' = 0
    /\ failed_files' = <<>>
    /\ exit_code' = None
    /\ log' = "none"
    /\ summary_data' = None
    /\ hist' = NewHist(store)
    /\ ingested' = ingested \cup (IF hist.committed THEN OkFiles(hist) ELSE {})
    /\ UNCHANGED <<env, ing, api>>

\* An except clause that ends with sys.exit(0).
Exit0(fatal, clause) ==
    /\ pc' = "done"
    /\ exit_code' = Some(0)
    /\ log' = IF logger THEN clause ELSE "traceback"
    /\ hist' = [hist EXCEPT !.fatal = fatal]

\* sys.exit(1) from one of main's except clauses.  A clause logs with the
\* local variable logger: when the exception came before logger was bound,
\* the clause itself raises UnboundLocalError and the interpreter ends the
\* process with a traceback and status 1.
Exit1(fatal, clause) ==
    /\ pc' = "done"
    /\ exit_code' = Some(1)
    /\ log' = IF logger THEN clause ELSE "traceback"
    /\ hist' = [hist EXCEPT !.fatal = fatal]

\* load_config, setup_logging, get_logger: lines 194-201.
LoadConfig ==
    /\ pc = "init"
    /\ \/ /\ pc' = "setup"
          /\ logger' = TRUE
          /\ UNCHANGED <<exit_code, log, hist>>
       \/ /\ Exit1("config", "fatal_error")
          /\ UNCHANGED logger
    /\ UNCHANGED <<env, locals, summary_data, runs, ingested, ing, api>>

\* setup_environment without the test of what test_api_connection returned.
SetupEnvironmentUnchecked ==
    /\ pc = "setup"
    /\ \E test_api_connection \in BOOLEAN :
          hist' = [hist EXCEPT !.probe = IF test_api_connection THEN "ok" ELSE "failed"]
    /\ pc' = "validate"
    /\ UNCHANGED <<env, logger, locals, exit_code, log, summary_data, runs, ingested, ing, api>>

\* processor.setup_environment(): line 204.
SetupEnvironment ==
    /\ pc = "setup"
    /\ \E test_api_connection \in BOOLEAN :
          /\ hist' = [hist EXCEPT !.probe = IF test_api_connection THEN "ok" ELSE "failed",
                                  !.fatal = IF test_api_connection THEN @ ELSE "probe"]
          /\ IF test_api_connection
             THEN /\ pc' = "validate"
                  /\ UNCHANGED <<exit_code, log>>
             ELSE \* AIProcessingError, caught by line 320
                  /\ pc' = "done"
                  /\ exit_code' = Some(1)
                  /\ log' = "AIProcessingError"
    /\ UNCHANGED <<env, logger, locals, summary_data, runs, ingested, ing, api>>

\* Lines 207-211 with the invalid store removed, not renamed.
ValidateStoreUnlinking ==
    /\ pc = "validate"
    /\ LET aside == ~validate_csv_structure(store) /\ Exists(store)
       IN  /\ store' = IF aside THEN Absent ELSE store
           /\ backup' = backup
           /\ hist' = [hist EXCEPT !.validated = TRUE, !.renamed = aside, !.store1 = store']
    /\ pc' = "load"
    /\ UNCHANGED <<dir, logger, locals, exit_code, log, summary_data, runs, ingested, ing, api>>

\* Lines 207-211: an existing store of invalid structure is renamed aside
\* (Path.rename replaces a file at the target).
ValidateStore ==
    /\ pc = "validate"
    /\ LET aside == ~validate_csv_structure(store) /\ Exists(store)
       IN  /\ store' = IF aside THEN Absent ELSE store
           /\ backup' = IF aside THEN store ELSE backup
           /\ hist' = [hist EXCEPT !.validated = TRUE, !.renamed = aside, !.store1 = store']
    /\ pc' = "load"
    /\ UNCHANGED <<dir, logger, locals, exit_code, log, summary_data, runs, ingested, ing, api>>

\* Line 214.
LoadHashes ==
    /\ pc = "load"
    /\ existing_hashes' = get_existing_hashes(store)
    /\ hist' = [hist EXCEPT !.loaded = TRUE, !.hashes0 = existing_hashes']
    /\ pc' = "discover"
    /\ UNCHANGED <<env, logger, pdf_files, idx, all_new_records, successful_files,
                   failed_files, exit_code, log, summary_data, runs, ingested, ing, api>>

\* Lines 218-231: without files main returns.
Discover ==
    /\ pc = "discover"
    /\ \E globbed \in Orders({n \in FileNames : dir[n] # "none"}) :
          pdf_files' = get_pdf_files(globbed)
    /\ hist' = [hist EXCEPT !.discovered = TRUE]
    /\ IF pdf_files' = <<>>
       THEN /\ pc' = "done"
            /\ exit_code' = Some(0)
            /\ idx' = idx
       ELSE /\ pc' = "loop"
            /\ exit_code' = exit_code
            /\ idx' = 1
    /\ UNCHANGED <<env, logger, existing_hashes, all_new_records, successful_files,
                   failed_files, log, summary_data, runs, ingested, ing, api>>

\* One iteration of the loop of lines 233-261.
ProcessFile ==
    /\ pc = "loop"
    /\ \E text_length \in TextLengths :
       \E ai \in IF text_length < MinTextLength THEN {"uncalled"} ELSE {"ok"} \cup AIErrors :
          LET result == process_single_pdf(pdf_files[idx], text_length, ai)
          IN  /\ hist' = [hist EXCEPT !.attempts =
                             Append(@, [filename |-> NameOf(pdf_files[idx]),
                                        text_length |-> text_length, ai |-> ai])]
              /\ IF result.status = "success"
                 THEN LET c == convert_statement_to_records(
                                   result.statement[1], result.filename, existing_hashes)
                      IN  /\ existing_hashes' = c.existing_hashes
                          /\ all_new_records' = all_new_records \o c.new_records
                          /\ successful_files' = successful_files + 1
                          /\ failed_files' = failed_files
                 ELSE /\ failed_files' = Append(failed_files,
                             [filename |-> result.filename, error |-> result.error,
                              error_type |-> result.error_type])
                      /\ UNCHANGED <<existing_hashes, all_new_records, successful_files>>
    /\ idx' = idx + 1
    /\ pc' = IF idx = Len(pdf_files) THEN "commit" ELSE "loop"
    /\ UNCHANGED <<env, logger, pdf_files, exit_code, log, summary_data, runs, ingested, ing, api>>

\* Lines 264-277 without the test of line 264: append_to_csv is called with
\* whatever the list holds.
CommitUnguarded ==
    /\ pc = "commit"
    /\ \E outcome \in append_to_csv(all_new_records, store) :
          /\ store' = outcome.file
          /\ hist' = [hist EXCEPT !.append_calls = @ + 1, !.append_idx = idx,
                                  !.committed = ~outcome.raised,
                                  !.fatal = IF outcome.failed THEN "storage" ELSE @]
          /\ IF outcome.raised
             THEN /\ pc' = "done"
                  /\ exit_code' = Some(1)
                  /\ log' = "StorageError"
             ELSE /\ pc' = "report"
                  /\ UNCHANGED <<exit_code, log>>
    /\ UNCHANGED <<backup, dir, logger, locals, summary_data, runs, ingested, ing, api>>

\* Lines 264-277.
Commit ==
    /\ pc = "commit"
    /\ IF all_new_records # <<>>
       THEN \E outcome \in append_to_csv(all_new_records, store) :
               /\ store' = outcome.file
               /\ hist' = [hist EXCEPT !.append_calls = @ + 1, !.append_idx = idx,
                                       !.committed = ~outcome.raised,
                                       !.fatal = IF outcome.failed THEN "storage" ELSE @]
               /\ IF outcome.raised
                  THEN \* StorageError, caught by line 320
                       /\ pc' = "done"
                       /\ exit_code' = Some(1)
                       /\ log' = "StorageError"
                  ELSE /\ pc' = "report"
                       /\ UNCHANGED <<exit_code, log>>
       ELSE /\ pc' = "report"
            /\ hist' = [hist EXCEPT !.committed = TRUE]
            /\ UNCHANGED <<store, exit_code, log>>
    /\ UNCHANGED <<backup, dir, logger, locals, summary_data, runs, ingested, ing, api>>

\* Lines 280-314, and the return of main.
Report ==
    /\ pc = "report"
    /\ summary_data' = Some([files_processed |-> successful_files,
                             total_files |-> Len(pdf_files),
                             new_transactions |-> Len(all_new_records),
                             failed_files |-> Len(failed_files)])
    /\ pc' = "done"
    /\ exit_code' = Some(0)
    /\ UNCHANGED <<env, logger, locals, log, runs, hist, ingested, ing, api>>

\* Lines 316-319 with a handler that saves the accumulated records before
\* it exits.
InterruptFlushing ==
    /\ pc \in {"init", "setup", "validate", "load", "discover", "loop", "commit", "report"}
    /\ Exit1("interrupt", "interrupted")
    /\ store' = Appended(all_new_records, store)
    /\ UNCHANGED <<backup, dir, logger, locals, summary_data, runs, ingested, ing, api>>

\* KeyboardInterrupt, raised anywhere inside main's try: lines 316-319.
Interrupt ==
    /\ pc \in {"init", "setup", "validate", "load", "discover", "loop", "commit", "report"}
    /\ Exit1("interrupt", "interrupted")
    /\ UNCHANGED <<env, logger, locals, summary_data, runs, ingested, ing, api>>

\* KeyboardInterrupt while append_to_csv writes.
InterruptWrite ==
    /\ pc = "commit"
    /\ all_new_records # <<>>
    /\ store' \in FailedWrites(all_new_records, store)
    /\ pc' = "done"
    /\ exit_code' = Some(1)
    /\ log' = "interrupted"
    /\ hist' = [hist EXCEPT !.append_calls = @ + 1, !.append_idx = idx, !.fatal = "interrupt"]
    /\ UNCHANGED <<backup, dir, logger, locals, summary_data, runs, ingested, ing, api>>

Next ==
    \/ StartRun
    \/ LoadConfig
    \/ SetupEnvironment
    \/ ValidateStore
    \/ LoadHashes
    \/ Discover
    \/ ProcessFile
    \/ Commit
    \/ Report
    \/ Interrupt
    \/ InterruptWrite

Spec == Init /\ [][Next]_vars

-----------------------------------------------------------------------------
(* convert_statement_to_records on its own: every statement of at most     *)
(* MaxTxns transactions against every set of known hashes                  *)

\* The statements drawn as inputs.
InputStatements ==
    {BankStatement(<<"7">>, t) :
        t \in UNION {[1..n -> Transactions] : n \in 0..MaxTxns}}

\* The sets of known hashes drawn as inputs: hashes of the transactions,
\* and the hash of a transaction of another account.
InputHashes ==
    SUBSET ({create_transaction_hash(<<"7">>, t) : t \in Transactions}
            \cup {create_transaction_hash(<<"8">>, TxA)})

IngestInit ==
    /\ store = Absent
    /\ backup = Absent
    /\ dir = [n \in FileNames |-> "none"]
    /\ pc = "idle"
    /\ logger = FALSE
    /\ existing_hashes = {}
    /\ pdf_files = <<>>
    /\ idx = 0
    /\ all_new_records = <<>>
    /\ successful_files = 0
    /\ failed_files = <<>>
    /\ exit_code = None
    /\ log = "none"
    /\ summary_data = None
    /\ runs = 0
    /\ hist = NewHist(store)
    /\ ingested = {}
    /\ api = NoApi
    /\ \E statement \in InputStatements, hashes \in InputHashes :
          ing = Call(statement, FileA, hashes)

\* The call is made and returns.
Ingest ==
    /\ ~ing.returned
    /\ LET c == convert_statement_to_records(ing.statement, ing.source_filename, ing.known)
       IN  ing' = [ing EXCEPT !.returned = TRUE, !.new_records = c.new_records,
                              !.existing_hashes = c.existing_hashes]
    /\ UNCHANGED <<env, pc, logger, locals, exit_code, log, summary_data, runs, hist, ingested, api>>

IngestSpec == IngestInit /\ [][Ingest]_vars

-----------------------------------------------------------------------------
(* The functions of the ledger store on their own: up to MaxCalls calls of *)
(* append_to_csv, get_existing_hashes and validate_csv_structure, from     *)
(* every store.  api records the last call and the history of the calls.  *)

\* The columns without transaction_hash.
UnkeyedColumns == Tail(RecordColumns)

\* The stores the calls start from.
StoreInputs ==
    InitialStores \cup {Csv(ExtendedColumns, <<>>),
                        Csv(UnkeyedColumns, <<RowUnder(UnkeyedColumns, OldRecord)>>)}

\* The lists of records given to append_to_csv.
AppendInputs ==
    LET r(tx) == NewRecord(Statement("s1"), FileA, tx,
                           create_transaction_hash(Statement("s1").account_number, tx))
    IN  {<<>>, <<r(TxA)>>, <<r(TxB), r(TxZ0)>>}

StoreInit ==
    /\ store \in StoreInputs
    /\ backup = Absent
    /\ dir = [n \in FileNames |-> "none"]
    /\ pc = "idle"
    /\ logger = FALSE
    /\ existing_hashes = {}
    /\ pdf_files = <<>>
    /\ idx = 0
    /\ all_new_records = <<>>
    /\ successful_files = 0
    /\ failed_files = <<>>
    /\ exit_code = None
    /\ log = "none"
    /\ summary_data = None
    /\ runs = 0
    /\ hist = NewHist(store)
    /\ ingested = {}
    /\ ing = NoCall
    /\ \E parent \in IF Exists(store) THEN {TRUE} ELSE BOOLEAN :
          api = [op |-> "none", n |-> 0,
                 start |-> store,          \* the store before the first call
                 parent |-> parent,        \* whether the directory of the store exists
                 before |-> store,         \* the store before the last call
                 parent_before |-> parent,
                 records |-> <<>>,         \* the list given to the last append_to_csv
                 io |-> FALSE,             \* whether the last read met an I/O error
                 hashes |-> {},            \* what the last get_existing_hashes returned
                 valid |-> FALSE,          \* what the last validate_csv_structure returned
                 raised |-> FALSE,         \* whether the last call raised
                 appended |-> <<>>,        \* the records of the append_to_csv calls that returned
                 failed |-> FALSE]         \* whether an append_to_csv call raised

StoreFrame ==
    UNCHANGED <<backup, dir, pc, logger, locals, exit_code, log, summary_data, runs, hist,
                ingested, ing>>

\* append_to_csv(records, csv_path)
CallAppend ==
    /\ api.n < MaxCalls
    /\ \E records \in AppendInputs :
       \E outcome \in append_to_csv(records, store) :
       \E parent \in IF ~makedirs_called(records) THEN {api.parent}
                     ELSE IF outcome.failed /\ ~Exists(outcome.file) THEN {api.parent, TRUE}
                     ELSE {TRUE} :
          /\ store' = outcome.file
          /\ api' = [api EXCEPT !.op = "append", !.n = @ + 1, !.before = store,
                                !.parent_before = api.parent, !.parent = parent,
                                !.records = records, !.raised = outcome.raised,
                                !.appended = IF outcome.raised THEN @ ELSE @ \o records,
                                !.failed = @ \/ outcome.raised]
    /\ StoreFrame

\* get_existing_hashes(csv_path)
CallLoad ==
    /\ api.n < MaxCalls
    /\ \E io \in BOOLEAN :
          LET c == get_existing_hashes_call(store, io)
          IN  api' = [api EXCEPT !.op = "load", !.n = @ + 1, !.before = store,
                                 !.parent_before = api.parent, !.io = io,
                                 !.hashes = c.ret, !.raised = c.raised]
    /\ UNCHANGED store
    /\ StoreFrame

\* validate_csv_structure(csv_path)
CallValidate ==
    /\ api.n < MaxCalls
    /\ \E io \in BOOLEAN :
          LET c == validate_csv_structure_call(store, io)
          IN  api' = [api EXCEPT !.op = "validate", !.n = @ + 1, !.before = store,
                                 !.parent_before = api.parent, !.io = io,
                                 !.valid = c.ret, !.raised = c.raised]
    /\ UNCHANGED store
    /\ StoreFrame

StoreNext == CallAppend \/ CallLoad \/ CallValidate

StoreSpec == StoreInit /\ [][StoreNext]_vars

-----------------------------------------------------------------------------
(* create_transaction_hash on its own: two calls on every pair of inputs,  *)
(* and the first call once more                                            *)

\* The payment that empties the account, its balance extracted as -0.0.
TxZm == [TxZ0 EXCEPT !.balance = Some(NegZero)]
\* The credit with a date that holds a hyphen, with an empty reference and
\* with none.
TxD  == [TxB EXCEPT !.date = <<"1", "-", "2">>]
TxBe == [TxB EXCEPT !.reference = Some(<<>>)]
TxBn == [TxB EXCEPT !.reference = None]

\* The account numbers and transactions drawn as inputs.
HashAccounts == {<<"7">>, <<"7", "-", "1">>}
HashTransactions == Transactions \cup {TxZm, TxD, TxBe, TxBn}

HashInit ==
    /\ store = Absent
    /\ backup = Absent
    /\ dir = [n \in FileNames |-> "none"]
    /\ pc = "idle"
    /\ logger = FALSE
    /\ existing_hashes = {}
    /\ pdf_files = <<>>
    /\ idx = 0
    /\ all_new_records = <<>>
    /\ successful_files = 0
    /\ failed_files = <<>>
    /\ exit_code = None
    /\ log = "none"
    /\ summary_data = None
    /\ runs = 0
    /\ hist = NewHist(store)
    /\ ingested = {}
    /\ ing = NoCall
    /\ \E a1 \in HashAccounts, a2 \in HashAccounts,
          t1 \in HashTransactions, t2 \in HashTransactions :
          api = [op |-> "none", account1 |-> a1, t1 |-> t1, account2 |-> a2, t2 |-> t2,
                 h1 |-> <<>>, h2 |-> <<>>, h1_again |-> <<>>]

\* create_transaction_hash(account1, t1), create_transaction_hash(account2,
\* t2), and create_transaction_hash(account1, t1) again.
CallHash ==
    /\ api.op = "none"
    /\ api' = [api EXCEPT !.op = "hash",
                          !.h1 = create_transaction_hash(api.account1, api.t1),
                          !.h2 = create_transaction_hash(api.account2, api.t2),
                          !.h1_again = create_transaction_hash(api.account1, api.t1)]
    /\ UNCHANGED <<env, pc, logger, locals, exit_code, log, summary_data, runs, hist,
                   ingested, ing>>

HashSpec == HashInit /\ [][CallHash]_vars

-----------------------------------------------------------------------------
(* Properties *)

\* The hash of the transaction at position i of a statement.
HashAt(statement, i) ==
    create_transaction_hash(statement.account_number, statement.transactions[i])

\* The hashes of the transactions of a statement.
HashesOf(statement) == {HashAt(statement, i) : i \in 1..Len(statement.transactions)}

\* The transaction_hash values of a list of records.
RecordHashes(records) == {records[i].transaction_hash : i \in 1..Len(records)}

\* No two records of the list carry the same hash.
DistinctHashes(records) ==
    \A i, j \in 1..Len(records) :
        i # j => records[i].transaction_hash # records[j].transaction_hash

IsPrefix(s, t) == Len(s) <= Len(t) /\ SubSeq(t, 1, Len(s)) = s

\* C1: Reprocessing is idempotent: a run over a file that an earlier run
\* processed successfully and committed takes no record from that file, and
\* when every file it processes is such a file it reports 0 new transactions
\* and leaves the store as it found it.
C1_ReprocessingAddsNothing ==
    /\ \A i \in 1..Len(all_new_records) : all_new_records[i].source_file \notin ingested
    /\ (summary_data # None /\ OkFiles(hist) # {} /\ OkFiles(hist) \subseteq ingested)
           => summary_data[1].new_transactions = 0 /\ store = hist.store0

\* The positions of a statement whose transaction is new against a set of
\* hashes: its hash is not in the set and no earlier position has it.
FirstOccurrences(statement, hashes) ==
    {i \in 1..Len(statement.transactions) :
        /\ HashAt(statement, i) \notin hashes
        /\ \A j \in 1..(i - 1) : HashAt(statement, j) # HashAt(statement, i)}

\* The k-th smallest element of a set of numbers.
Nth(S, k) == CHOOSE i \in S : Cardinality({j \in S : j < i}) = k - 1

\* C2: The records convert_statement_to_records returns carry each hash at
\* most once, and they are the records of the first occurrences of the
\* transactions whose hash was not in the initial set, in the order of the
\* statement.
C2_FirstOccurrencesInOrder ==
    ing.returned =>
        LET first == FirstOccurrences(ing.statement, ing.known)
        IN  /\ DistinctHashes(ing.new_records)
            /\ Len(ing.new_records) = Cardinality(first)
            /\ \A k \in 1..Len(ing.new_records) :
                   ing.new_records[k] =
                       NewRecord(ing.statement, ing.source_filename,
                                 ing.statement.transactions[Nth(first, k)],
                                 HashAt(ing.statement, Nth(first, k)))

\* [A, B, A] against the empty set has returned [A, B].
C2_Witness ==
    /\ ing.returned
    /\ ing.statement.transactions = <<TxA, TxB, TxA>>
    /\ ing.known = {}
    /\ Len(ing.new_records) = 2
    /\ ing.new_records[1].description = TxA.description
    /\ ing.new_records[2].description = TxB.description

\* Whether the statement of a file of the directory holds a transaction of
\* this hash.
Holds(name, tx_hash) == dir[name] \in StatementIds /\ tx_hash \in HashesOf(Statement(dir[name]))

\* C3: The files are processed one at a time in the order of their names, a
\* transaction of the run's successful files is recorded at most once, and
\* a recorded transaction carries the name of the first file, in the order
\* of the names, among the successful files that hold it; every transaction
\* of a successful file that the store did not know is recorded.
C3_FirstFileInNameOrderWins ==
    /\ \A i, j \in 1..Len(pdf_files) :
           i < j => StrLess(NameOf(pdf_files[i]), NameOf(pdf_files[j]))
    /\ Len(hist.attempts) <= Len(pdf_files)
    /\ pc = "loop" => Len(hist.attempts) = idx - 1
    /\ \A k \in 1..Len(hist.attempts) : hist.attempts[k].filename = NameOf(pdf_files[k])
    /\ DistinctHashes(all_new_records)
    /\ \A i \in 1..Len(all_new_records) :
           LET r == all_new_records[i]
           IN  /\ r.source_file \in OkFiles(hist)
               /\ Holds(r.source_file, r.transaction_hash)
               /\ \A n \in OkFiles(hist) :
                      Holds(n, r.transaction_hash) /\ n # r.source_file
                          => StrLess(r.source_file, n)
    /\ \A n \in OkFiles(hist) :
           HashesOf(Statement(dir[n])) \ hist.hashes0 \subseteq RecordHashes(all_new_records)

\* B.pdf and a.pdf both hold the payment A, both were processed, and the
\* one record of A names B.pdf.
C3_Witness ==
    /\ pc = "commit"
    /\ {FileB, FileA} \subseteq OkFiles(hist)
    /\ Holds(FileB, create_transaction_hash(<<"7">>, TxA))
    /\ Holds(FileA, create_transaction_hash(<<"7">>, TxA))
    /\ \E i \in 1..Len(all_new_records) :
           /\ all_new_records[i].transaction_hash = create_transaction_hash(<<"7">>, TxA)
           /\ all_new_records[i].source_file = FileB

\* Whether the extraction or the AI call of an attempt failed: too little
\* text, or an exception of the AI collaborator.
Failed(attempt) == attempt.text_length < MinTextLength \/ attempt.ai \in AIErrors

\* The positions of the run's attempts that failed.
FailedAttempts == {k \in 1..Len(hist.attempts) : Failed(hist.attempts[k])}

RECURSIVE RecordsOfSuccessful(_, _, _)
\* The new records of the successful attempts from position k on, against
\* the hashes known so far.
RecordsOfSuccessful(attempts, k, hashes) ==
    IF k > Len(attempts) THEN <<>>
    ELSE IF Failed(attempts[k]) THEN RecordsOfSuccessful(attempts, k + 1, hashes)
    ELSE LET c == convert_statement_to_records(
                      Statement(dir[attempts[k].filename]), attempts[k].filename, hashes)
         IN  c.new_records \o RecordsOfSuccessful(attempts, k + 1, c.existing_hashes)

\* C4: Per-file isolation: whatever files fail, every file of the batch is
\* attempted before the commit, a failure ends no run, the tally of
\* successes is the attempts less the failed ones, every failed attempt has
\* its entry with a message and the type of the error, and the records
\* accumulated and committed are those of the successful files.
C4_PerFileIsolation ==
    LET F == FailedAttempts
    IN  /\ successful_files = Len(hist.attempts) - Cardinality(F)
        /\ Len(failed_files) = Cardinality(F)
        /\ \A j \in 1..Len(failed_files) :
               LET a == hist.attempts[Nth(F, j)]
               IN  /\ failed_files[j].filename = a.filename
                   /\ failed_files[j].error # ""
                   /\ failed_files[j].error_type =
                          IF a.text_length < MinTextLength THEN "PDFProcessingError" ELSE a.ai
        /\ all_new_records = RecordsOfSuccessful(hist.attempts, 1, hist.hashes0)
        /\ (pc \in {"commit", "report"} \/ hist.append_calls > 0 \/ summary_data # None)
               => Len(hist.attempts) = Len(pdf_files)
        /\ (pc = "done" /\ hist.discovered /\ Len(hist.attempts) < Len(pdf_files))
               => hist.fatal = "interrupt"
        /\ hist.committed => store = Appended(all_new_records, hist.store1)
        /\ summary_data # None =>
               summary_data[1] = [files_processed |-> Len(pdf_files) - Cardinality(F),
                                  total_files |-> Len(pdf_files),
                                  new_transactions |-> Len(all_new_records),
                                  failed_files |-> Cardinality(F)]

\* A batch of three files, the AI call of the second raised: two successes
\* and one failure are reported and the new records are committed.
C4_Witness ==
    /\ summary_data # None
    /\ Len(pdf_files) = 3
    /\ hist.attempts[2].ai = "JSONDecodeError"
    /\ successful_files = 2
    /\ Len(failed_files) = 1
    /\ failed_files[1].error_type = "JSONDecodeError"
    /\ hist.committed
    /\ all_new_records # <<>>
    /\ store = Appended(all_new_records, hist.store1)

\* C5: A run calls append_to_csv at most once: once when the accumulated
\* list is not empty, not at all when it is empty, and only after every
\* file of the list was attempted; the store does not change from the end
\* of preflight to the commit.
C5_OneAppendAfterTheLoop ==
    /\ hist.append_calls <= 1
    /\ hist.append_calls = 1 =>
           /\ all_new_records # <<>>
           /\ hist.append_idx = Len(pdf_files) + 1
           /\ Len(hist.attempts) = Len(pdf_files)
    /\ (pc = "report" \/ summary_data # None) =>
           hist.append_calls = IF all_new_records = <<>> THEN 0 ELSE 1
    /\ pc \in {"load", "discover", "loop", "commit"} => store = hist.store1
    /\ hist.append_calls = 0 => store \in {hist.store0, hist.store1}

\* A run over two files has called append_to_csv once, after the loop.
C5_Witness ==
    /\ pc = "report"
    /\ Len(pdf_files) >= 2
    /\ Len(all_new_records) >= 2
    /\ hist.append_calls = 1
    /\ store # hist.store1

\* C6: A write that fails in append_to_csv ends the run with StorageError
\* logged, exit status 1 and no report, and adds no failure entry.
C6_WriteFailureIsFatal ==
    hist.fatal = "storage" =>
        /\ pc = "done"
        /\ exit_code = Some(1)
        /\ log = "StorageError"
        /\ summary_data = None
        /\ ~hist.committed
        /\ hist.append_calls = 1
        /\ Len(failed_files) = Cardinality(FailedAttempts)

\* The write of a batch failed after one file had failed.
C6_Witness ==
    /\ hist.fatal = "storage"
    /\ exit_code = Some(1)
    /\ Len(failed_files) = 1
    /\ all_new_records # <<>>

\* C7: The exit status is 0 exactly when the run went through initialize,
\* preflight and commit (or returned for want of files to process) with no
\* fatal event, and 1 after a configuration failure, a failed probe, a
\* write failure or an interrupt; failed files do not change it.
C7_ExitStatus ==
    /\ pc # "done" => exit_code = None
    /\ (pc = "done" /\ runs > 0) => exit_code \in {Some(0), Some(1)}
    /\ exit_code = Some(0) =>
           /\ logger
           /\ hist.probe = "ok"
           /\ hist.validated /\ hist.loaded /\ hist.discovered
           /\ hist.committed \/ pdf_files = <<>>
    /\ (pc = "done" /\ hist.fatal \in {"config", "probe", "storage", "interrupt"})
           => exit_code = Some(1)
    /\ (pc = "done" /\ runs > 0 /\ hist.fatal = "none") => exit_code = Some(0)

\* A run in which a file failed has ended with status 0.
C7_Witness ==
    /\ pc = "done"
    /\ exit_code = Some(0)
    /\ failed_files # <<>>
    /\ hist.committed

\* C8: When the probe fails the run ends with status 1 and has not
\* validated, renamed, read or written the store nor discovered or
\* processed a file; and whatever of these a run did, it did after a probe
\* that succeeded.
C8_ProbeGatesTheRun ==
    /\ hist.probe = "failed" =>
           /\ pc = "done"
           /\ exit_code = Some(1)
           /\ ~hist.validated /\ ~hist.renamed /\ ~hist.loaded
           /\ hist.append_calls = 0
           /\ store = hist.store0
           /\ ~hist.discovered
           /\ pdf_files = <<>>
           /\ hist.attempts = <<>>
    /\ (hist.validated \/ hist.loaded \/ hist.discovered \/ hist.attempts # <<>>
            \/ hist.append_calls > 0 \/ store # hist.store0)
           => hist.probe = "ok"

\* The probe failed in a run that had an invalid store and files to process.
C8_Witness ==
    /\ hist.probe = "failed"
    /\ pc = "done"
    /\ ~validate_csv_structure(store)
    /\ \E n \in FileNames : dir[n] \in StatementIds

\* C9: An existing store of invalid structure is renamed aside: the backup
\* path holds its content, the run goes on with an empty set of hashes, and
\* the commit creates a store that is the header and the new records.
C9_InvalidStoreIsRenamedAside ==
    /\ (hist.validated /\ Exists(hist.store0) /\ ~validate_csv_structure(hist.store0))
           => hist.renamed
    /\ hist.renamed =>
           /\ Exists(hist.store0) /\ ~validate_csv_structure(hist.store0)
           /\ backup = hist.store0
           /\ hist.store1 = Absent
           /\ pc # "validate"
           /\ hist.loaded => hist.hashes0 = {}
           /\ pc = "done" => hist.fatal # "none" \/ exit_code = Some(0)
           /\ (hist.committed /\ all_new_records # <<>>)
                  => store = Csv(RecordColumns, RowsOf(all_new_records))

\* A store that lacks a column was renamed aside with its row, and the
\* commit created a new store.
C9_Witness ==
    /\ hist.renamed
    /\ hist.store0.kind = "csv"
    /\ hist.store0.rows # <<>>
    /\ backup = hist.store0
    /\ hist.committed
    /\ store.kind = "csv"
    /\ store.header = RecordColumns
    /\ store.rows # <<>>

\* C10 as stated: the rows the store held when a run started are the first
\* rows of the store when the run has ended.
C10_AppendOnly == pc = "done" => IsPrefix(hist.store0.rows, store.rows)

\* C10: The store is append-only in every run that finds its structure
\* valid: the header stays and the rows the store held when the run started
\* stay its first rows; a store of invalid structure is renamed aside, and
\* the backup path then holds its rows.
C10_AppendOnlyWhenValid ==
    /\ validate_csv_structure(hist.store0) =>
           /\ IsPrefix(hist.store0.rows, store.rows)
           /\ Exists(hist.store0) => store.header = hist.store0.header
           /\ ~hist.renamed
    /\ (Exists(hist.store0) /\ ~validate_csv_structure(hist.store0)) =>
           \/ store = hist.store0 /\ ~hist.validated
           \/ backup = hist.store0

\* A run has added rows to a valid store that held a row.
C10_Witness ==
    /\ pc = "done"
    /\ hist.committed
    /\ hist.store0.rows # <<>>
    /\ validate_csv_structure(hist.store0)
    /\ Len(store.rows) > Len(hist.store0.rows)
    /\ IsPrefix(hist.store0.rows, store.rows)

\* The fingerprints of the records of a store, in row order: the values
\* under its transaction_hash column.
StoreHashes(file) ==
    IF file.kind # "csv" \/ ColumnIndex(file.header, "transaction_hash") = 0 THEN <<>>
    ELSE [i \in 1..Len(file.rows) |-> AsStr(Cell(file.header, file.rows[i], "transaction_hash"))]

\* No two records of the store carry the same fingerprint.
UniqueKey(file) ==
    \A i, j \in 1..Len(StoreHashes(file)) :
        i # j => StoreHashes(file)[i] # StoreHashes(file)[j]

\* C11: The fingerprint is a unique key of the store: when no two records
\* of the store carried the same fingerprint as a run started (an absent
\* store has none), no two records of the store carry the same fingerprint
\* at any point of the run, so the key stays unique over any sequence of
\* runs.
C11_FingerprintIsUniqueKey == UniqueKey(hist.store0) => UniqueKey(store)

\* C12: From an absent store, after any sequence of append_to_csv calls
\* that returned, the store is absent when nothing was appended and
\* otherwise one header line followed by the lines of all the appended
\* records in call order, and get_existing_hashes returns exactly the set
\* of the transaction_hash values of the appended records.
C12_AppendLoadRoundTrip ==
    (api.start = Absent /\ ~api.failed) =>
        /\ store = IF api.appended = <<>> THEN Absent
                   ELSE Csv(RecordColumns, RowsOf(api.appended))
        /\ get_existing_hashes(store) = RecordHashes(api.appended)
        /\ (api.op = "load" /\ ~api.io) => api.hashes = RecordHashes(api.appended)

\* Two lists were appended to a store that was absent, and the load
\* returned the three hashes.
C12_Witness ==
    /\ api.start = Absent
    /\ ~api.failed
    /\ api.op = "load"
    /\ Len(api.appended) = 3
    /\ Len(store.rows) = 3
    /\ Cardinality(api.hashes) = 3

\* C13: append_to_csv of an empty list changes nothing, whatever the store:
\* the file at the path is what it was (an absent store stays absent, an
\* existing one keeps its header and rows), the parent directory is not
\* created, and the call returns.
C13_EmptyAppendChangesNothing ==
    (api.op = "append" /\ api.records = <<>>) =>
        /\ store = api.before
        /\ api.parent = api.parent_before
        /\ ~api.raised

\* The empty list was appended, in the second call, to an absent store
\* whose directory is absent too.
C13_Witness ==
    /\ api.op = "append"
    /\ api.records = <<>>
    /\ api.before = Absent
    /\ ~api.parent
    /\ api.n = 2
    /\ store = Absent

\* Whether the header of a file names every one of the 13 columns of a
\* record.
HasAllColumns(file) ==
    \A i \in 1..Len(RecordColumns) : ColumnIndex(file.header, RecordColumns[i]) # 0

\* C14: validate_csv_structure returns True for an absent store, True for
\* a store whose header names all 13 required columns (with or without
\* rows, with or without further columns, in any order), False for a store
\* whose header lacks a required column and False for a store that cannot
\* be parsed or read; it does not raise and leaves the store as it was.
C14_ValidateStructure ==
    /\ Len(RecordColumns) = 13 /\ Cardinality(expected_columns) = 13
    /\ api.op = "validate" =>
           /\ ~api.raised
           /\ store = api.before
           /\ api.before.kind = "absent" => api.valid
           /\ (api.before.kind = "csv" /\ ~api.io) => (api.valid <=> HasAllColumns(api.before))
           /\ api.before.kind \in {"empty", "garbage"} => ~api.valid
           /\ (Exists(api.before) /\ api.io) => ~api.valid

\* The store holds the 13 columns and one more and no rows, and
\* validate_csv_structure returned True.
C14_Witness ==
    /\ api.op = "validate"
    /\ api.before = Csv(ExtendedColumns, <<>>)
    /\ ~api.io
    /\ api.valid

\* C15: get_existing_hashes does not raise and leaves the store as it was;
\* it returns the empty set for a store that is absent, of zero bytes,
\* unparsable, unreadable or without a transaction_hash column, and
\* otherwise exactly the set of the values its rows hold under
\* transaction_hash.
C15_LoadNeverRaises ==
    api.op = "load" =>
        /\ ~api.raised
        /\ store = api.before
        /\ api.before.kind \in {"absent", "empty", "garbage"} => api.hashes = {}
        /\ api.io => api.hashes = {}
        /\ (api.before.kind = "csv" /\ ColumnIndex(api.before.header, "transaction_hash") = 0)
               => api.hashes = {}
        /\ (api.before.kind = "csv" /\ ColumnIndex(api.before.header, "transaction_hash") # 0
                /\ ~api.io)
               => api.hashes = {StoreHashes(api.before)[i] : i \in 1..Len(api.before.rows)}

\* The read of a store that holds a record met an I/O error, and
\* get_existing_hashes returned the empty set.
C15_Witness ==
    /\ api.op = "load"
    /\ api.before.kind = "csv"
    /\ api.before.rows # <<>>
    /\ ColumnIndex(api.before.header, "transaction_hash") # 0
    /\ api.io
    /\ api.hashes = {}
    /\ ~api.raised

\* Optional[float].__eq__: both None, or both floats that are equal.
OptFloatEq(a, b) == (a = None /\ b = None) \/ (a # None /\ b # None /\ FloatEq(a[1], b[1]))

\* C16: Two transactions of one account with the same date, debit, credit,
\* balance and reference, whose descriptions are equal after lower() and
\* strip(), have the same fingerprint; and a second call on the same input
\* returns the same fingerprint.
C16_NormalizedEqualsSameFingerprint ==
    api.op = "hash" =>
        /\ api.h1_again = api.h1
        /\ (/\ api.account1 = api.account2
            /\ api.t1.date = api.t2.date
            /\ Strip(Lower(api.t1.description)) = Strip(Lower(api.t2.description))
            /\ OptFloatEq(api.t1.debit, api.t2.debit)
            /\ OptFloatEq(api.t1.credit, api.t2.credit)
            /\ OptFloatEq(api.t1.balance, api.t2.balance)
            /\ api.t1.reference = api.t2.reference)
               => api.h1 = api.h2

\* The balance of a transaction with an absent one read as 0.0, and its
\* reference with an empty one read as absent.
BalanceOrZero(t) == IF t.balance = None THEN Float(0) ELSE t.balance[1]
ReferenceOrNone(t) == IF t.reference = Some(<<>>) THEN None ELSE t.reference

\* Whether two inputs agree in every component of the tuple that identifies
\* a transaction.
SameTuple(a1, t1, a2, t2) ==
    /\ a1 = a2
    /\ t1.date = t2.date
    /\ Strip(Lower(t1.description)) = Strip(Lower(t2.description))
    /\ OptFloatEq(t1.debit, t2.debit)
    /\ OptFloatEq(t1.credit, t2.credit)
    /\ FloatEq(BalanceOrZero(t1), BalanceOrZero(t2))
    /\ ReferenceOrNone(t1) = ReferenceOrNone(t2)

\* C17: Two inputs that differ in a component of the tuple (account
\* number, date, normalized description, debit, credit, balance with absent
\* read as 0.0, reference with empty read as absent) have different
\* fingerprints, the digest being collision-free.
C17_DifferentTuplesDifferentFingerprints ==
    (api.op = "hash" /\ ~SameTuple(api.account1, api.t1, api.account2, api.t2))
        => api.h1 # api.h2

\* Whether two transactions are the same but for the balance, which one of
\* them lacks and the other holds as 0.0.
ZeroTwins(t, u) ==
    \/ t.balance = None /\ u = [t EXCEPT !.balance = Some(Float(0))]
    \/ u.balance = None /\ t = [u EXCEPT !.balance = Some(Float(0))]

\* The first position of a statement whose transaction has this hash.
FirstWith(statement, h) ==
    CHOOSE i \in 1..Len(statement.transactions) :
        /\ HashAt(statement, i) = h
        /\ \A j \in 1..(i - 1) : HashAt(statement, j) # h

\* C18: A transaction without a balance has the fingerprint of the
\* transaction that differs from it only in holding the balance 0.0, for
\* every account number; of two such transactions in a statement,
\* convert_statement_to_records records the one it meets first and not the
\* other, and neither when the fingerprint was known.
C18_MissingBalanceIsZero ==
    /\ \A a \in HashAccounts : \A t \in HashTransactions :
           t.balance = None =>
               create_transaction_hash(a, t)
                   = create_transaction_hash(a, [t EXCEPT !.balance = Some(Float(0))])
    /\ ing.returned =>
           \A i, j \in 1..Len(ing.statement.transactions) :
               (i < j /\ ZeroTwins(ing.statement.transactions[i], ing.statement.transactions[j]))
                   => LET h == HashAt(ing.statement, i)
                          with == {k \in 1..Len(ing.new_records) :
                                       ing.new_records[k].transaction_hash = h}
                      IN  /\ HashAt(ing.statement, j) = h
                          /\ Cardinality(with) = IF h \in ing.known THEN 0 ELSE 1
                          /\ \A k \in with :
                                 ing.new_records[k].balance =
                                     ing.statement.transactions[FirstWith(ing.statement, h)].balance

\* The statement holds the payment without balance and then the payment
\* with balance 0.0, and the one record returned is that of the first.
C18_Witness ==
    /\ ing.returned
    /\ ing.statement.transactions = <<TxZn, TxZ0>>
    /\ ing.known = {}
    /\ Len(ing.new_records) = 1
    /\ ing.new_records[1].balance = None

\* C19: For every statement and every initial set K,
\* convert_statement_to_records returns; the caller's set afterwards is K
\* united with the hashes of the returned records, so it contains K and the
\* hash of every transaction of the statement; no returned record has a
\* hash in K; and every returned record carries the given source file name
\* and the statement's holder, bank, account number, sort code and period.
C19_IngestEffectOnTheSet ==
    ing.returned =>
        /\ ing.existing_hashes = ing.known \cup RecordHashes(ing.new_records)
        /\ ing.known \subseteq ing.existing_hashes
        /\ HashesOf(ing.statement) \subseteq ing.existing_hashes
        /\ RecordHashes(ing.new_records) \cap ing.known = {}
        /\ \A k \in 1..Len(ing.new_records) :
               LET r == ing.new_records[k]
               IN  /\ r.source_file = ing.source_filename
                   /\ r.account_holder = ing.statement.account_holder_name
                   /\ r.bank_name = ing.statement.bank_name
                   /\ r.account_number = ing.statement.account_number
                   /\ r.sort_code = ing.statement.sort_code
                   /\ r.statement_period = ing.statement.statement_period
                   /\ r.transaction_hash \in HashesOf(ing.statement)

\* Of a statement of three transactions one was known: two records were
\* returned and the set has grown by their hashes.
C19_Witness ==
    /\ ing.returned
    /\ ing.statement.transactions = <<TxB, TxA, TxZ0>>
    /\ ing.known = {create_transaction_hash(<<"7">>, TxA), create_transaction_hash(<<"8">>, TxA)}
    /\ Len(ing.new_records) = 2
    /\ Cardinality(ing.existing_hashes) = 4

\* C20: A run that ends by a fatal error (the configuration could not be
\* loaded, the probe failed, the write of the commit failed) has logged the
\* error in main's except clause and exits with status 1.
C20_FatalErrorsAreLogged ==
    (pc = "done" /\ hist.fatal \in {"config", "probe", "storage"}) =>
        /\ exit_code = Some(1)
        /\ log = CASE hist.fatal = "config" -> "fatal_error"
                   [] hist.fatal = "probe" -> "AIProcessingError"
                   [] hist.fatal = "storage" -> "StorageError"

\* The run was ended by a KeyboardInterrupt raised inside the loop of lines
\* 233-261: the files were discovered and not all of them were attempted.
InterruptedInLoop ==
    /\ pc = "done"
    /\ hist.fatal = "interrupt"
    /\ hist.discovered
    /\ Len(hist.attempts) < Len(pdf_files)

\* C21: An interrupt raised during the per-file loop ends the run before
\* the commit: append_to_csv is not called in that run, the store is the
\* store the loop started with (none of the accumulated records is in it),
\* no report is made and the exit status is 1.
C21_InterruptBeforeCommit ==
    InterruptedInLoop =>
        /\ hist.append_calls = 0
        /\ ~hist.committed
        /\ store = hist.store1
        /\ summary_data = None
        /\ exit_code = Some(1)

\* The second file of a run was interrupted after the first had given
\* records: the store is as the loop found it and does not hold them.
C21_Witness ==
    /\ InterruptedInLoop
    /\ Len(hist.attempts) = 1
    /\ all_new_records # <<>>
    /\ store = hist.store1
    /\ store # Appended(all_new_records, hist.store1)
    /\ exit_code = Some(1)

\* read_csv: the value under a column in row i of the last n rows of a
\* store.
AppendedCell(file, n, i, column) ==
    Cell(file.header, file.rows[Len(file.rows) - n + i], column)

\* C22: After append_to_csv of a non-empty list returned on an existing
\* store whose header has all the required columns (in any order, with or
\* without extra columns), every appended value is read back under the
\* column of its own name, and get_existing_hashes returns the set it
\* returned before united with the appended fingerprints.
C22_AppendedRowsAlignedWithHeader ==
    (/\ api.op = "append"
     /\ api.records # <<>>
     /\ ~api.raised
     /\ api.before.kind = "csv"
     /\ HasAllColumns(api.before)) =>
        /\ Len(store.rows) = Len(api.before.rows) + Len(api.records)
        /\ \A i \in 1..Len(api.records) : \A column \in expected_columns :
               AppendedCell(store, Len(api.records), i, column)
                   = CsvField(column, api.records[i][column])
        /\ get_existing_hashes(store)
               = get_existing_hashes(api.before) \cup RecordHashes(api.records)

\* A file that holds bytes: the content a rename over it would destroy.
HasContent(file) == file.kind \in {"garbage", "csv"}

\* C23: A backup file with content, once preflight has left it at the
\* backup path, stays there with that content in every later step of every
\* later run, also when a later run renames another invalid store aside.
C23_BackupNeverDestroysData ==
    [][HasContent(backup) => backup' = backup]_vars

====
